---- MODULE Spec2Model ----
(***************************************************************************)
(* Model of VideoRenderer.create_scrolling_video_overlay_cuda and the      *)
(* helpers it calls (_get_codec_parameters, _build_ffmpeg_cmd,             *)
(* _background_image_processor, ImageProcessor.download_and_process_image) *)
(* as one render invocation stepping through the function body.            *)
(***************************************************************************)
EXTENDS Integers, Sequences, FiniteSets, TLC

\* ------------------------------------------------------------------------
\* Values
\* ------------------------------------------------------------------------
None == "None"
Unset == "unset"

\* margin heights tried besides 0
MarginPx == 2

max_retries == 3

\* canvas height (self.height) used by the requests
CanvasHeight == 4

\* largest source image height tried
MaxImageHeight == 44

\* largest frame rate tried
MaxFps == 2

\* most diagnostic lines the encoder writes in one run
MaxDiagnostics == 2

\* requested scroll speeds (self.roll_px) in tenths of a pixel per frame
RollSpeeds10 == {0, 5, 10, 15, 16, 25}

Systems == {"Linux", "Windows", "Darwin"}
Codecs == {"h264_nvenc", "libx264"}
BackgroundUrls == {"none", "local", "remote"}
Margins == {0, MarginPx}
Paths == {"temp_img", "bg_local", "bg_temp"}

\* the substrings the supervisor looks for in the encoder's stderr
Markers ==
    {"No space left on device", "Invalid argument", "Error opening filters",
     "CUDA error", "CUDA failure", "Impossible to convert between the formats",
     "Function not implemented"}

VARIABLES
    req,                    \* arguments of the call and of __init__
    env,                    \* os.environ, platform.system(), what the probes see
    pc,                     \* position in create_scrolling_video_overlay_cuda
    files,                  \* os.path.exists for the three paths
    removes,                \* number of successful os.remove calls per path
    rm_failed,              \* some os.remove raised
    temp_img_path,          \* Unset until line 351 binds it
    temp_written,           \* pil_image.save wrote the text-layer image
    codec_params,
    has_cuda_support,
    has_overlay_cuda,
    resolver_called,        \* download_and_process_image was invoked
    retry_count,
    bg_result,              \* return value of _background_image_processor
    materialized,           \* a remote background was saved to bg_temp
    local_background_path,
    ffmpeg_cmd,
    launched,               \* subprocess.Popen returned a process
    returncode,             \* <<>> until the process exits, then <<status>>
    stderr,
    failure_class,          \* which message the non-zero branch raised
    exc,                    \* the exception caught by the outer handler
    outcome,                \* how the call ended
    timeline,               \* the locals computed at lines 369-413, <<>> before
    offset,                 \* <<>> or <<n, y>>: y_expr evaluated for frame n
    self_total_frames,      \* self.total_frames: who wrote it and the value
    performance_stats,      \* self.performance_stats: per key, who wrote it
    process,                \* the encoder child process
    monitor,                \* the progress-reading thread
    peer,                   \* a second invocation on the same renderer object
    remove_calls            \* per path, how often os.remove was called on it

vars == <<req, env, pc, files, removes, rm_failed, temp_img_path, temp_written,
          codec_params, has_cuda_support, has_overlay_cuda, resolver_called,
          retry_count, bg_result, materialized, local_background_path,
          ffmpeg_cmd, launched, returncode, stderr, failure_class, exc, outcome,
          timeline, offset, self_total_frames, performance_stats, process,
          monitor, peer,
          remove_calls>>

\* variables of the renderer object, the child process and its reader
objvars == <<self_total_frames, performance_stats>>
procvars == <<process, monitor>>

\* ------------------------------------------------------------------------
\* Pure helpers
\* ------------------------------------------------------------------------

\* os.path.exists(p) for a value that may be None / unbound
Exists(fs, p) == p \in Paths /\ fs[p]

\* the path a background_url argument denotes on the local file system
UrlAsPath(background_url) == IF background_url = "local" THEN "bg_local" ELSE None

IsRemote(background_url) == background_url = "remote"

GetCodecParameters_IgnoreOverride(preferred_codec, force_cpu, system) ==
    IF preferred_codec = "h264_nvenc"
    THEN IF system \in {"Windows", "Linux"} THEN "h264_nvenc" ELSE "libx264"
    ELSE "libx264"

\* -c:v of the parameter list returned by _get_codec_parameters
GetCodecParameters(preferred_codec, force_cpu, system) ==
    IF preferred_codec = "h264_nvenc" /\ ~force_cpu
    THEN IF system \in {"Windows", "Linux"} THEN "h264_nvenc" ELSE "libx264"
    ELSE "libx264"

\* lines 241-243 of _build_ffmpeg_cmd with the binding at 236-239 (mutant: the
\* existence check is dropped)
ResolvedBackground_NoExistsCheck(background_url, result, fs) ==
    IF background_url = "none" THEN None ELSE result

\* lines 236-243 of _build_ffmpeg_cmd: the value local_background_path ends with
ResolvedBackground(background_url, result, fs) ==
    IF background_url = "none" THEN None
    ELSE IF result = None \/ ~Exists(fs, result) THEN None ELSE result

\* lines 245-279 of _build_ffmpeg_cmd: the ordered -i inputs
InputList(lbp, fs, top_margin, bottom_margin) ==
    IF lbp # None /\ Exists(fs, lbp)
    THEN <<"bg_image", "scroll">>
    ELSE <<"bg_color", "scroll">>
         \o (IF top_margin > 0 THEN <<"top_mask">> ELSE <<>>)
         \o (IF bottom_margin > 0 THEN <<"bottom_mask">> ELSE <<>>)

\* a reference [n:v] to process input n, and a reference to a stage label
In(n) == [t |-> "in", idx |-> n, lbl |-> ""]
L(s) == [t |-> "lbl", idx |-> -1, lbl |-> s]

Stage(role, op, ins, out) == [role |-> role, op |-> op, ins |-> ins, out |-> out]

ImageFilterParts_StaleOutput(top_margin, bottom_margin) ==
    LET base == << Stage("upload_bg", "hwupload_cuda", <<In(0)>>, "bg_cuda"),
                   Stage("upload_scroll", "hwupload_cuda", <<In(1)>>, "scroll_cuda"),
                   Stage("overlay_scroll", "overlay_cuda",
                         <<L("bg_cuda"), L("scroll_cuda")>>, "overlayed_cuda") >>
        top == IF top_margin > 0
               THEN << Stage("crop_top", "hwupload_cuda", <<In(0)>>, "top_mask_cuda"),
                       Stage("overlay_top", "overlay_cuda",
                             <<L("overlayed_cuda"), L("top_mask_cuda")>>, "with_top_mask") >>
               ELSE <<>>
        after_top == IF top_margin > 0 THEN "with_top_mask" ELSE "overlayed_cuda"
        bottom == IF bottom_margin > 0
                  THEN << Stage("crop_bottom", "hwupload_cuda", <<In(0)>>, "bottom_mask_cuda"),
                          Stage("overlay_bottom", "overlay_cuda",
                                <<L(after_top), L("bottom_mask_cuda")>>, "final_cuda") >>
                  ELSE <<>>
        current_output == "final_cuda"
    IN  base \o top \o bottom
        \o << Stage("download", "hwdownload", <<L(current_output)>>, "out") >>

\* lines 515-541: filter stages in background-image mode
ImageFilterParts(top_margin, bottom_margin) ==
    LET base == << Stage("upload_bg", "hwupload_cuda", <<In(0)>>, "bg_cuda"),
                   Stage("upload_scroll", "hwupload_cuda", <<In(1)>>, "scroll_cuda"),
                   Stage("overlay_scroll", "overlay_cuda",
                         <<L("bg_cuda"), L("scroll_cuda")>>, "overlayed_cuda") >>
        top == IF top_margin > 0
               THEN << Stage("crop_top", "hwupload_cuda", <<In(0)>>, "top_mask_cuda"),
                       Stage("overlay_top", "overlay_cuda",
                             <<L("overlayed_cuda"), L("top_mask_cuda")>>, "with_top_mask") >>
               ELSE <<>>
        after_top == IF top_margin > 0 THEN "with_top_mask" ELSE "overlayed_cuda"
        bottom == IF bottom_margin > 0
                  THEN << Stage("crop_bottom", "hwupload_cuda", <<In(0)>>, "bottom_mask_cuda"),
                          Stage("overlay_bottom", "overlay_cuda",
                                <<L(after_top), L("bottom_mask_cuda")>>, "final_cuda") >>
                  ELSE <<>>
        current_output == IF bottom_margin > 0 THEN "final_cuda" ELSE after_top
    IN  base \o top \o bottom
        \o << Stage("download", "hwdownload", <<L(current_output)>>, "out") >>

SolidFilterParts_FixedIndices(top_margin, bottom_margin) ==
    LET base == << Stage("upload_scroll", "hwupload_cuda", <<In(1)>>, "img_cuda"),
                   Stage("overlay_scroll", "overlay_cuda",
                         <<In(0), L("img_cuda")>>, "bg_with_scroll") >>
        top == IF top_margin > 0
               THEN << Stage("overlay_top", "overlay_cuda",
                             <<L("bg_with_scroll"), In(2)>>, "with_top_mask") >>
               ELSE <<>>
        after_top == IF top_margin > 0 THEN "with_top_mask" ELSE "bg_with_scroll"
        bottom == IF bottom_margin > 0
                  THEN << Stage("overlay_bottom", "overlay_cuda",
                                <<L(after_top), In(3)>>, "final_cuda") >>
                  ELSE <<>>
        current_output == IF bottom_margin > 0 THEN "final_cuda" ELSE after_top
    IN  base \o top \o bottom
        \o << Stage("download", "hwdownload", <<L(current_output)>>, "out") >>

\* lines 545-571: filter stages in solid-colour mode; next_input_index starts
\* at 2 and advances past each mask that is present
SolidFilterParts(top_margin, bottom_margin) ==
    LET base == << Stage("upload_scroll", "hwupload_cuda", <<In(1)>>, "img_cuda"),
                   Stage("overlay_scroll", "overlay_cuda",
                         <<In(0), L("img_cuda")>>, "bg_with_scroll") >>
        top == IF top_margin > 0
               THEN << Stage("overlay_top", "overlay_cuda",
                             <<L("bg_with_scroll"), In(2)>>, "with_top_mask") >>
               ELSE <<>>
        after_top == IF top_margin > 0 THEN "with_top_mask" ELSE "bg_with_scroll"
        next_input_index == IF top_margin > 0 THEN 3 ELSE 2
        bottom == IF bottom_margin > 0
                  THEN << Stage("overlay_bottom", "overlay_cuda",
                                <<L(after_top), In(next_input_index)>>, "final_cuda") >>
                  ELSE <<>>
        current_output == IF bottom_margin > 0 THEN "final_cuda" ELSE after_top
    IN  base \o top \o bottom
        \o << Stage("download", "hwdownload", <<L(current_output)>>, "out") >>

\* lines 513-573: the mode test and the stages it selects
FilterParts(lbp, fs, top_margin, bottom_margin) ==
    IF lbp # None /\ Exists(fs, lbp)
    THEN ImageFilterParts(top_margin, bottom_margin)
    ELSE SolidFilterParts(top_margin, bottom_margin)

\* lines 583-587: the index written into "-map <n>:a:0"
AudioIndex(background_url, fs) ==
    IF background_url # "none" /\ Exists(fs, UrlAsPath(background_url)) THEN 2 ELSE 3

\* lines 645-658 (mutant: the unimplemented test is made before the format test)
Classify_UnimplementedFirst(err) ==
    IF "No space left on device" \in err THEN "storage_exhaustion"
    ELSE IF "Invalid argument" \in err THEN "invalid_argument"
    ELSE IF "Error opening filters" \in err THEN "filter_graph_configuration"
    ELSE IF "CUDA error" \in err \/ "CUDA failure" \in err THEN "hardware_driver"
    ELSE IF "Function not implemented" \in err THEN "unimplemented_operation"
    ELSE IF "Impossible to convert between the formats" \in err THEN "format_conversion"
    ELSE "generic_nonzero_exit"

\* lines 645-658: the if/elif chain over substrings of stderr
Classify(err) ==
    IF "No space left on device" \in err THEN "storage_exhaustion"
    ELSE IF "Invalid argument" \in err THEN "invalid_argument"
    ELSE IF "Error opening filters" \in err THEN "filter_graph_configuration"
    ELSE IF "CUDA error" \in err \/ "CUDA failure" \in err THEN "hardware_driver"
    ELSE IF "Impossible to convert between the formats" \in err THEN "format_conversion"
    ELSE IF "Function not implemented" \in err THEN "unimplemented_operation"
    ELSE "generic_nonzero_exit"

Max(a, b) == IF a >= b THEN a ELSE b

\* int(x) of a non-negative speed given in tenths
IntOf(x10) == x10 \div 10

RECURSIVE Log2Floor(_)
\* floor(log2(n)) for n >= 1
Log2Floor(n) == IF n < 2 THEN 0 ELSE 1 + Log2Floor(n \div 2)

RECURSIVE QuotLog2Floor(_, _)
\* floor(log2(n / d)) for n >= d >= 1
QuotLog2Floor(n, d) == IF n < 2 * d THEN 0 ELSE 1 + QuotLog2Floor(n, 2 * d)

RECURSIVE PowMod(_, _, _)
\* b^e mod m
PowMod(b, e, m) == IF e = 0 THEN 1 % m ELSE (b * PowMod(b, e - 1, m)) % m

IntOfProduct_LosesFrame(n, fps) ==
    IF n % fps = 0 THEN n ELSE n - 1

\* line 391, int(scroll_duration * self.fps), where scroll_duration is the
\* double nearest to n / fps (n >= fps >= 1): the quotient is rounded to 53
\* bits, the product is rounded again, and the result is truncated.  With
\* a = floor(log2(n/fps)), e = floor(log2(n)) and r = n * 2^(52-a) mod fps,
\* the quotient is rounded down by r / fps units of its last place when
\* 2r < fps; the product then falls short of n by r * 2^(a-52), which rounds
\* to the double below n exactly when that exceeds half the spacing of
\* doubles just below n.
IntOfProduct(n, fps) ==
    IF n % fps = 0 THEN n
    ELSE LET e == Log2Floor(n)
             a == QuotLog2Floor(n, fps)
             r == ((n % fps) * PowMod(2, 52 - a, fps)) % fps
             half_gap == 2 ^ (e - a - 1)
         IN  IF 2 * r > fps THEN n
             ELSE IF n = 2 ^ e
                  THEN (IF 2 * r > half_gap THEN n - 1 ELSE n)
                  ELSE (IF r > half_gap THEN n - 1 ELSE n)

\* lines 396-399, int(total_duration * self.fps) with total_duration =
\* 2.0 + scroll_duration + 2.0 in doubles: exact when scroll_duration is a
\* whole number of seconds, otherwise the two additions and the product may
\* lose one frame
TotalFramesOutcomes(duration_ticks, fps) ==
    IF duration_ticks % fps = 0
    THEN {duration_ticks + 4 * fps}
    ELSE {duration_ticks + 4 * fps - 1, duration_ticks + 4 * fps}

\* lines 369-413 for fps >= 1.  Durations are kept as a count of ticks of
\* 1/fps seconds: scroll_duration = scroll_duration_ticks / fps
Timeline(img_height, height, roll_px10, fps) ==
    LET scroll_distance == Max(0, img_height - height)
        roll_px_int == Max(1, IntOf(roll_px10))
        min_scroll_steps == (scroll_distance \div roll_px_int)
                            + (IF scroll_distance % roll_px_int > 0 THEN 1 ELSE 0)
        scroll_duration_ticks == Max(8 * fps, min_scroll_steps)
        scroll_frames == IntOfProduct(scroll_duration_ticks, fps)
        px_per_frame == Max(1, scroll_distance \div scroll_frames)
        frames_needed == (scroll_distance \div px_per_frame)
                         + (IF scroll_distance % px_per_frame > 0 THEN 1 ELSE 0)
    IN  [scroll_distance |-> scroll_distance,
         roll_px_int |-> roll_px_int,
         min_scroll_steps |-> min_scroll_steps,
         scroll_duration_ticks |-> scroll_duration_ticks,
         scroll_frames |-> scroll_frames,
         scroll_start_tick |-> 2 * fps,
         scroll_end_tick |-> 2 * fps + scroll_duration_ticks,
         total_duration_ticks |-> scroll_duration_ticks + 4 * fps,
         px_per_frame |-> px_per_frame,
         frames_needed |-> frames_needed]

\* lines 485-497, y_expr / calc_y at t = n / fps (frame n); at such a t
\* floor((t - scroll_start_time) * fps) is n - scroll_start_tick
calc_y(n, tl, top_margin, img_height, height) ==
    IF n < tl.scroll_start_tick THEN top_margin
    ELSE IF n <= tl.scroll_end_tick
         THEN top_margin - tl.px_per_frame * (n - tl.scroll_start_tick)
         ELSE -(img_height - height + top_margin)

\* self.performance_stats as assigned at lines 54-61 and 323-329
StatsKeysAtInit ==
    {"preparation_time", "frame_processing_time", "encoding_time", "total_time",
     "frames_processed", "fps"}

StatsKeys == {"preparation_time", "encoding_time", "total_time", "frames_processed", "fps"}

\* a value of a renderer field, tagged with the invocation that stored it
Stored(who, v) == [by |-> who, v |-> v]

\* lines 323-329: a new dict bound to self.performance_stats
FreshStats(who) == [dict |-> who, fields |-> [k \in StatsKeys |-> Stored(who, 0)]]

\* lines 679-682: the four entries stored after the encoder has finished;
\* frames_processed is the local total_frames
FinalStats(fields, who, total_frames) ==
    [k \in DOMAIN fields |->
        IF k \in {"encoding_time", "total_time", "fps"} THEN Stored(who, 1)
        ELSE IF k = "frames_processed" THEN Stored(who, total_frames)
        ELSE fields[k]]

EmptyCmd ==
    [preamble |-> <<>>, inputs |-> <<>>, filter |-> <<>>,
     audio_index |-> -1, codec |-> None, complete |-> FALSE]

\* the requests a render is called with in the full specification
MainRequests ==
    [background_url : BackgroundUrls,
     top_margin : Margins,
     bottom_margin : Margins,
     audio : BOOLEAN,
     preferred_codec : Codecs,
     image_ok : BOOLEAN,
     height : {CanvasHeight},
     img_height : {MaxImageHeight},
     roll_px10 : {10},
     fps : {0, MaxFps}]

Environments ==
    [NO_GPU : BOOLEAN,
     system : Systems,
     nvidia_rc : {0, 1},
     overlay_cuda_listed : BOOLEAN]

\* lines 43-61: the renderer after __init__, before the call
InitWith(requests, environments) ==
    /\ req \in requests
    /\ env \in environments
    /\ pc = "start"
    /\ \E local_exists \in BOOLEAN :
          /\ (req.background_url # "local" => local_exists = FALSE)
          /\ files = [p \in Paths |-> IF p = "bg_local" THEN local_exists ELSE FALSE]
    /\ removes = [p \in Paths |-> 0]
    /\ rm_failed = FALSE
    /\ temp_img_path = Unset
    /\ temp_written = FALSE
    /\ codec_params = Unset
    /\ has_cuda_support = FALSE
    /\ has_overlay_cuda = FALSE
    /\ resolver_called = FALSE
    /\ retry_count = 0
    /\ bg_result = Unset
    /\ materialized = FALSE
    /\ local_background_path = Unset
    /\ ffmpeg_cmd = EmptyCmd
    /\ launched = FALSE
    /\ returncode = <<>>
    /\ stderr = {}
    /\ failure_class = None
    /\ exc = None
    /\ outcome = "running"
    /\ timeline = <<>>
    /\ offset = <<>>
    /\ self_total_frames = Stored("init", 0)
    /\ performance_stats =
          [dict |-> "init", fields |-> [k \in StatsKeysAtInit |-> Stored("init", 0)]]
    /\ process = [state |-> "none", status |-> 0, err |-> {}]
    /\ monitor = [state |-> "none", lines |-> {}]
    /\ peer = [pc |-> "absent", total_frames |-> 0]
    /\ remove_calls = [p \in Paths |-> 0]

Init == InitWith(MainRequests, Environments)

\* raise inside the outer try: control goes to the handler at line 692
Raise(e) ==
    /\ exc' = e
    /\ pc' = "except"

\* lines 331-367: type check, makedirs, temp path, save of the text layer
PrepareImage ==
    /\ pc = "start"
    /\ \/ /\ ~req.image_ok
          /\ Raise("ValueError")
          /\ UNCHANGED <<temp_img_path, temp_written, files>>
       \/ /\ req.image_ok
          /\ \E step \in {"makedirs_raises", "save_raises", "saved"} :
                \/ /\ step = "makedirs_raises"
                   /\ Raise("OSError")
                   /\ UNCHANGED <<temp_img_path, temp_written, files>>
                \/ /\ step = "save_raises"
                   /\ Raise("OSError")
                   /\ temp_img_path' = "temp_img"
                   /\ UNCHANGED <<temp_written, files>>
                \/ /\ step = "saved"
                   /\ temp_img_path' = "temp_img"
                   /\ temp_written' = TRUE
                   /\ files' = [files EXCEPT !["temp_img"] = TRUE]
                   /\ pc' = "timeline"
                   /\ UNCHANGED exc
    /\ UNCHANGED <<req, env, removes, rm_failed, codec_params, has_cuda_support,
                   has_overlay_cuda, resolver_called, retry_count, bg_result,
                   materialized, local_background_path, ffmpeg_cmd, launched,
                   returncode, stderr, failure_class, outcome>>
    /\ performance_stats' = FreshStats("main")
    /\ UNCHANGED <<timeline, offset, self_total_frames, procvars, peer>>
    /\ UNCHANGED remove_calls

\* lines 369-413: the scroll timeline; line 387 divides by self.fps
ComputeTimeline ==
    /\ pc = "timeline"
    /\ IF req.fps = 0
       THEN /\ Raise("ZeroDivisionError")
            /\ UNCHANGED <<timeline, self_total_frames>>
       ELSE LET tl == Timeline(req.img_height, req.height, req.roll_px10, req.fps)
            IN  \E total_frames \in TotalFramesOutcomes(tl.scroll_duration_ticks, req.fps) :
                   /\ timeline' = <<[total_frames |-> total_frames] @@ tl>>
                   /\ self_total_frames' = Stored("main", total_frames)
                   /\ pc' = "codec"
                   /\ UNCHANGED exc
    /\ UNCHANGED <<req, env, files, removes, rm_failed, temp_img_path, temp_written,
                   codec_params, has_cuda_support, has_overlay_cuda, resolver_called,
                   retry_count, bg_result, materialized, local_background_path,
                   ffmpeg_cmd, launched, returncode, stderr, failure_class, outcome>>
    /\ UNCHANGED <<offset, performance_stats, procvars, peer>>
    /\ UNCHANGED remove_calls

\* the encoder evaluating y_expr (line 485) for the next frame, frame n
\* being shown at t = n / fps, up to t = total_duration
EvalFrame ==
    /\ pc = "codec"
    /\ timeline # <<>>
    /\ LET n == IF offset = <<>> THEN 0 ELSE offset[1] + 1
       IN  /\ n <= timeline[1].total_duration_ticks
           /\ offset' = <<n, calc_y(n, timeline[1], req.top_margin, req.img_height,
                                    req.height)>>
    /\ UNCHANGED <<req, env, pc, files, removes, rm_failed, temp_img_path, temp_written,
                   codec_params, has_cuda_support, has_overlay_cuda, resolver_called,
                   retry_count, bg_result, materialized, local_background_path,
                   ffmpeg_cmd, launched, returncode, stderr, failure_class, exc, outcome>>
    /\ UNCHANGED <<timeline, objvars, procvars, peer>>
    /\ UNCHANGED remove_calls

\* lines 420-427: codec parameters, then the preparation time is stored
SelectCodec ==
    /\ pc = "codec"
    /\ codec_params' = GetCodecParameters(req.preferred_codec, env.NO_GPU, env.system)
    /\ pc' = "probe_gpu"
    /\ UNCHANGED <<req, env, files, removes, rm_failed, temp_img_path, temp_written,
                   has_cuda_support, has_overlay_cuda, resolver_called, retry_count,
                   bg_result, materialized, local_background_path, ffmpeg_cmd,
                   launched, returncode, stderr, failure_class, exc, outcome>>
    /\ performance_stats' = [performance_stats EXCEPT
                                !.fields["preparation_time"] = Stored("main", 1)]
    /\ UNCHANGED <<timeline, offset, self_total_frames, procvars, peer>>
    /\ UNCHANGED remove_calls

\* lines 434-443: nvidia-smi, 2 s timeout
ProbeGpu ==
    /\ pc = "probe_gpu"
    /\ \E ran \in BOOLEAN :
          IF ran /\ env.nvidia_rc = 0
          THEN /\ has_cuda_support' = TRUE
               /\ pc' = "probe_filter"
               /\ UNCHANGED exc
          ELSE /\ has_cuda_support' = FALSE
               /\ Raise("CapabilityError")
    /\ UNCHANGED <<req, env, files, removes, rm_failed, temp_img_path, temp_written,
                   codec_params, has_overlay_cuda, resolver_called, retry_count,
                   bg_result, materialized, local_background_path, ffmpeg_cmd,
                   launched, returncode, stderr, failure_class, outcome>>
    /\ UNCHANGED <<timeline, offset, objvars, procvars, peer>>
    /\ UNCHANGED remove_calls

\* lines 445-465: ffmpeg -filters, 5 s timeout
ProbeFilter ==
    /\ pc = "probe_filter"
    /\ \E ran \in BOOLEAN :
          IF ran /\ env.overlay_cuda_listed
          THEN /\ has_overlay_cuda' = TRUE
               /\ pc' = "build"
               /\ UNCHANGED exc
          ELSE /\ has_overlay_cuda' = FALSE
               /\ Raise("CapabilityError")
    /\ UNCHANGED <<req, env, files, removes, rm_failed, temp_img_path, temp_written,
                   codec_params, has_cuda_support, resolver_called, retry_count,
                   bg_result, materialized, local_background_path, ffmpeg_cmd,
                   launched, returncode, stderr, failure_class, outcome>>
    /\ UNCHANGED <<timeline, offset, objvars, procvars, peer>>
    /\ UNCHANGED remove_calls

\* line 469: formatting bg_color, the first statement of command assembly
\* that can raise; local_background_path is not bound yet
FormatBgHex ==
    /\ pc = "build"
    /\ \E ok \in BOOLEAN :
          IF ok THEN pc' = "resolve" /\ UNCHANGED exc
                ELSE Raise("AssemblyError")
    /\ UNCHANGED <<req, env, files, removes, rm_failed, temp_img_path, temp_written,
                   codec_params, has_cuda_support, has_overlay_cuda, resolver_called,
                   retry_count, bg_result, materialized, local_background_path,
                   ffmpeg_cmd, launched, returncode, stderr, failure_class, outcome>>
    /\ UNCHANGED <<timeline, offset, objvars, procvars, peer>>
    /\ UNCHANGED remove_calls

\* _build_ffmpeg_cmd lines 229-239 and _background_image_processor lines
\* 177-191: the preamble, then either the reference is returned as it is or
\* the download of a remote reference begins
ResolveBackground ==
    /\ pc = "resolve"
    /\ ffmpeg_cmd' = [ffmpeg_cmd EXCEPT !.preamble = <<"-hwaccel", "cuda",
                                                      "-hwaccel_output_format", "cuda">>]
    /\ IF IsRemote(req.background_url)
       THEN /\ resolver_called' = TRUE
            /\ retry_count' = 0
            /\ pc' = "download"
            /\ UNCHANGED bg_result
       ELSE /\ bg_result' = UrlAsPath(req.background_url)
            /\ pc' = "inputs"
            /\ UNCHANGED <<resolver_called, retry_count>>
    /\ UNCHANGED <<req, env, files, removes, rm_failed, temp_img_path, temp_written,
                   codec_params, has_cuda_support, has_overlay_cuda, materialized,
                   local_background_path, launched, returncode, stderr,
                   failure_class, exc, outcome>>
    /\ UNCHANGED <<timeline, offset, objvars, procvars, peer>>
    /\ UNCHANGED remove_calls

DownloadAttempt_OneMore ==
    /\ pc = "download"
    /\ retry_count <= max_retries
    /\ \E o \in {"image", "timeout", "request_error", "invalid_image", "other_exception"} :
          \/ /\ o = "image"
             /\ pc' = "process"
             /\ UNCHANGED <<retry_count, bg_result>>
          \/ /\ o \in {"timeout", "request_error", "invalid_image"}
             /\ retry_count' = retry_count + 1
             /\ UNCHANGED <<pc, bg_result>>
          \/ /\ o = "other_exception"
             /\ bg_result' = None
             /\ pc' = "inputs"
             /\ UNCHANGED retry_count
    /\ UNCHANGED <<req, env, files, removes, rm_failed, temp_img_path, temp_written,
                   codec_params, has_cuda_support, has_overlay_cuda, resolver_called,
                   materialized, local_background_path, ffmpeg_cmd, launched,
                   returncode, stderr, failure_class, exc, outcome>>
    /\ UNCHANGED <<timeline, offset, objvars, procvars, peer>>
    /\ UNCHANGED remove_calls

\* download_image lines 46-92: one pass of the retry loop.  An exception that
\* is neither a timeout nor a RequestException leaves download_image and is
\* caught at line 281, which returns None
DownloadAttempt ==
    /\ pc = "download"
    /\ retry_count < max_retries
    /\ \E o \in {"image", "timeout", "request_error", "invalid_image", "other_exception"} :
          \/ /\ o = "image"
             /\ pc' = "process"
             /\ UNCHANGED <<retry_count, bg_result>>
          \/ /\ o \in {"timeout", "request_error", "invalid_image"}
             /\ retry_count' = retry_count + 1
             /\ UNCHANGED <<pc, bg_result>>
          \/ /\ o = "other_exception"
             /\ bg_result' = None
             /\ pc' = "inputs"
             /\ UNCHANGED retry_count
    /\ UNCHANGED <<req, env, files, removes, rm_failed, temp_img_path, temp_written,
                   codec_params, has_cuda_support, has_overlay_cuda, resolver_called,
                   materialized, local_background_path, ffmpeg_cmd, launched,
                   returncode, stderr, failure_class, exc, outcome>>
    /\ UNCHANGED <<timeline, offset, objvars, procvars, peer>>
    /\ UNCHANGED remove_calls

\* download_image lines 94-95 and download_and_process_image lines 245-246
DownloadGiveUp ==
    /\ pc = "download"
    /\ retry_count >= max_retries
    /\ bg_result' = None
    /\ pc' = "inputs"
    /\ UNCHANGED <<req, env, files, removes, rm_failed, temp_img_path, temp_written,
                   codec_params, has_cuda_support, has_overlay_cuda, resolver_called,
                   retry_count, materialized, local_background_path, ffmpeg_cmd,
                   launched, returncode, stderr, failure_class, exc, outcome>>
    /\ UNCHANGED <<timeline, offset, objvars, procvars, peer>>
    /\ UNCHANGED remove_calls

\* download_and_process_image lines 248-267: process_image and compress_image
\* return None on any error
ProcessAndCompress ==
    /\ pc = "process"
    /\ \E o \in {"processed", "process_failed", "compress_failed"} :
          IF o = "processed"
          THEN pc' = "save" /\ UNCHANGED bg_result
          ELSE bg_result' = None /\ pc' = "inputs"
    /\ UNCHANGED <<req, env, files, removes, rm_failed, temp_img_path, temp_written,
                   codec_params, has_cuda_support, has_overlay_cuda, resolver_called,
                   retry_count, materialized, local_background_path, ffmpeg_cmd,
                   launched, returncode, stderr, failure_class, exc, outcome>>
    /\ UNCHANGED <<timeline, offset, objvars, procvars, peer>>
    /\ UNCHANGED remove_calls

\* download_and_process_image lines 269-284 and _background_image_processor
\* lines 202-207: the save either writes the file and the path is returned,
\* or raises, leaves no file, and None is returned
SaveBackground ==
    /\ pc = "save"
    /\ \E saved \in BOOLEAN :
          IF saved
          THEN /\ files' = [files EXCEPT !["bg_temp"] = TRUE]
               /\ materialized' = TRUE
               /\ bg_result' = "bg_temp"
          ELSE /\ bg_result' = None
               /\ UNCHANGED <<files, materialized>>
    /\ pc' = "inputs"
    /\ UNCHANGED <<req, env, removes, rm_failed, temp_img_path, temp_written,
                   codec_params, has_cuda_support, has_overlay_cuda, resolver_called,
                   retry_count, local_background_path, ffmpeg_cmd, launched,
                   returncode, stderr, failure_class, exc, outcome>>
    /\ UNCHANGED <<timeline, offset, objvars, procvars, peer>>
    /\ UNCHANGED remove_calls

\* _build_ffmpeg_cmd lines 241-288 and the binding at lines 472-477
BuildInputs ==
    /\ pc = "inputs"
    /\ LET lbp == ResolvedBackground(req.background_url, bg_result, files)
       IN  /\ local_background_path' = lbp
           /\ ffmpeg_cmd' = [ffmpeg_cmd EXCEPT !.inputs =
                                InputList(lbp, files, req.top_margin, req.bottom_margin)]
    /\ pc' = "assemble"
    /\ UNCHANGED <<req, env, files, removes, rm_failed, temp_img_path, temp_written,
                   codec_params, has_cuda_support, has_overlay_cuda, resolver_called,
                   retry_count, bg_result, materialized, launched, returncode,
                   stderr, failure_class, exc, outcome>>
    /\ UNCHANGED <<timeline, offset, objvars, procvars, peer>>
    /\ UNCHANGED remove_calls

\* lines 479-611: audio input, filter graph, maps, codec parameters, trims
AssembleCommand ==
    /\ pc = "assemble"
    /\ ffmpeg_cmd' =
          [ffmpeg_cmd EXCEPT
              !.inputs = IF req.audio THEN @ \o <<"audio">> ELSE @,
              !.filter = FilterParts(local_background_path, files,
                                     req.top_margin, req.bottom_margin),
              !.audio_index = IF req.audio THEN AudioIndex(req.background_url, files)
                                           ELSE -1,
              !.codec = codec_params,
              !.complete = TRUE]
    /\ pc' = "launch"
    /\ UNCHANGED <<req, env, files, removes, rm_failed, temp_img_path, temp_written,
                   codec_params, has_cuda_support, has_overlay_cuda, resolver_called,
                   retry_count, bg_result, materialized, local_background_path,
                   launched, returncode, stderr, failure_class, exc, outcome>>
    /\ UNCHANGED <<timeline, offset, objvars, procvars, peer>>
    /\ UNCHANGED remove_calls

\* lines 614-632 and 659-661: Popen either returns a process or raises; the
\* progress reader is started on the new process
LaunchEncoder ==
    /\ pc = "launch"
    /\ \E spawned \in BOOLEAN :
          IF spawned
          THEN /\ launched' = TRUE
               /\ process' = [state |-> "running", status |-> 0, err |-> {}]
               /\ monitor' = [state |-> "alive", lines |-> {}]
               /\ pc' = "running"
               /\ UNCHANGED exc
          ELSE /\ Raise("ProcessError_spawn")
               /\ UNCHANGED <<launched, procvars>>
    /\ UNCHANGED <<req, env, files, removes, rm_failed, temp_img_path, temp_written,
                   codec_params, has_cuda_support, has_overlay_cuda, resolver_called,
                   retry_count, bg_result, materialized, local_background_path,
                   ffmpeg_cmd, returncode, stderr, failure_class, outcome>>
    /\ UNCHANGED <<timeline, offset, objvars, peer>>
    /\ UNCHANGED remove_calls

\* the child process ends: it has written its diagnostic lines to the stderr
\* pipe (line 621) and exits with a status
EncoderExit ==
    /\ process.state = "running"
    /\ \E rc \in {0, 1} : \E err \in SUBSET Markers :
          /\ Cardinality(err) <= MaxDiagnostics
          /\ process' = [state |-> "exited", status |-> rc, err |-> err]
    /\ UNCHANGED <<req, env, pc, files, removes, rm_failed, temp_img_path, temp_written,
                   codec_params, has_cuda_support, has_overlay_cuda, resolver_called,
                   retry_count, bg_result, materialized, local_background_path,
                   ffmpeg_cmd, launched, returncode, stderr, failure_class, exc, outcome>>
    /\ UNCHANGED <<timeline, offset, objvars, monitor, peer>>
    /\ UNCHANGED remove_calls

\* the progress reader takes a line from the process's stderr pipe, the
\* stream line 283 directs the progress to, while communicate() (line 635)
\* has not yet drained and closed it
MonitorRead ==
    /\ monitor.state = "alive"
    /\ pc = "running"
    /\ \E line \in process.err \ monitor.lines :
          monitor' = [monitor EXCEPT !.lines = @ \cup {line}]
    /\ UNCHANGED <<req, env, pc, files, removes, rm_failed, temp_img_path, temp_written,
                   codec_params, has_cuda_support, has_overlay_cuda, resolver_called,
                   retry_count, bg_result, materialized, local_background_path,
                   ffmpeg_cmd, launched, returncode, stderr, failure_class, exc, outcome>>
    /\ UNCHANGED <<timeline, offset, objvars, process, peer>>
    /\ UNCHANGED remove_calls

\* the progress reader ends once the process's output stream has closed
MonitorFinish ==
    /\ monitor.state = "alive"
    /\ process.state = "exited"
    /\ monitor' = [monitor EXCEPT !.state = "finished"]
    /\ UNCHANGED <<req, env, pc, files, removes, rm_failed, temp_img_path, temp_written,
                   codec_params, has_cuda_support, has_overlay_cuda, resolver_called,
                   retry_count, bg_result, materialized, local_background_path,
                   ffmpeg_cmd, launched, returncode, stderr, failure_class, exc, outcome>>
    /\ UNCHANGED <<timeline, offset, objvars, process, peer>>
    /\ UNCHANGED remove_calls

\* KeyboardInterrupt in the calling thread while it waits in communicate()
\* (line 635).  It is not an Exception, so neither handler (659, 692) runs;
\* communicate() does not kill the child, which ends only if the interrupt
\* signal reached it as well.
Interrupt ==
    /\ pc = "running"
    /\ process.state = "running"
    /\ \E child_signalled \in BOOLEAN :
          process' = IF child_signalled
                     THEN [state |-> "exited", status |-> 1, err |-> {}]
                     ELSE process
    /\ exc' = "KeyboardInterrupt"
    /\ outcome' = "raised"
    /\ pc' = "done"
    /\ UNCHANGED <<req, env, files, removes, rm_failed, temp_img_path, temp_written,
                   codec_params, has_cuda_support, has_overlay_cuda, resolver_called,
                   retry_count, bg_result, materialized, local_background_path,
                   ffmpeg_cmd, launched, returncode, stderr, failure_class>>
    /\ UNCHANGED <<timeline, offset, objvars, monitor, peer>>
    /\ UNCHANGED remove_calls

\* lines 634-635: communicate() returns once the process has exited, with
\* what it read from the stderr pipe: the lines the progress reader did not
\* take
Communicate ==
    /\ pc = "running"
    /\ process.state = "exited"
    /\ returncode' = <<process.status>>
    /\ stderr' = process.err \ monitor.lines
    /\ pc' = "join"
    /\ UNCHANGED <<req, env, files, removes, rm_failed, temp_img_path, temp_written,
                   codec_params, has_cuda_support, has_overlay_cuda, resolver_called,
                   retry_count, bg_result, materialized, local_background_path,
                   ffmpeg_cmd, launched, failure_class, exc, outcome>>
    /\ UNCHANGED <<timeline, offset, objvars, procvars, peer>>
    /\ UNCHANGED remove_calls

JoinMayReturn_NoTimeout(m) == m.state \in {"finished"}

\* lines 638-639: join is skipped when the reader has finished, and
\* join(timeout=2.0) returns after two seconds when it is still alive
JoinMayReturn(m) == m.state \in {"finished", "alive"}

\* lines 637-639
JoinMonitor ==
    /\ pc = "join"
    /\ JoinMayReturn(monitor)
    /\ pc' = "check"
    /\ UNCHANGED <<req, env, files, removes, rm_failed, temp_img_path, temp_written,
                   codec_params, has_cuda_support, has_overlay_cuda, resolver_called,
                   retry_count, bg_result, materialized, local_background_path,
                   ffmpeg_cmd, launched, returncode, stderr, failure_class, exc, outcome>>
    /\ UNCHANGED <<timeline, offset, objvars, procvars, peer>>
    /\ UNCHANGED remove_calls

\* lines 641-661
CheckReturnCode ==
    /\ pc = "check"
    /\ IF returncode[1] # 0
       THEN /\ failure_class' = Classify(stderr)
            /\ Raise("ProcessError")
       ELSE /\ pc' = "cleanup"
            /\ UNCHANGED <<failure_class, exc>>
    /\ UNCHANGED <<req, env, files, removes, rm_failed, temp_img_path, temp_written,
                   codec_params, has_cuda_support, has_overlay_cuda, resolver_called,
                   retry_count, bg_result, materialized, local_background_path,
                   ffmpeg_cmd, launched, returncode, stderr, outcome>>
    /\ UNCHANGED <<timeline, offset, objvars, procvars, peer>>
    /\ UNCHANGED remove_calls

\* the state a cleanup block starts from: nothing raised, no os.remove called
CleanupStart(fs, rm) ==
    [files |-> fs, removes |-> rm, raised |-> FALSE, calls |-> [p \in Paths |-> 0]]

\* one "if exists: os.remove" of a cleanup block; raises when the removal fails
RemoveIfExists(st, p, fails) ==
    IF st.raised \/ ~Exists(st.files, p) THEN st
    ELSE IF fails THEN [st EXCEPT !.raised = TRUE, !.calls[p] = @ + 1]
    ELSE [st EXCEPT !.files[p] = FALSE, !.removes[p] = @ + 1, !.calls[p] = @ + 1]

RemoveTempFiles_TextLayerOnly(fs, rm, tpath, lbp, fail_temp, fail_bg) ==
    RemoveIfExists(CleanupStart(fs, rm), tpath, fail_temp)

\* lines 664-675 and 695-708: both removals inside one try; tpath and lbp are
\* Unset when the name is not in locals()
RemoveTempFiles(fs, rm, tpath, lbp, fail_temp, fail_bg) ==
    RemoveIfExists(
        RemoveIfExists(CleanupStart(fs, rm), tpath, fail_temp),
        lbp, fail_bg)

\* lines 663-675
CleanupAfterSuccess ==
    /\ pc = "cleanup"
    /\ \E fail_temp \in BOOLEAN : \E fail_bg \in BOOLEAN :
          LET st == RemoveTempFiles(files, removes, temp_img_path,
                                    local_background_path, fail_temp, fail_bg)
          IN  /\ files' = st.files
              /\ removes' = st.removes
              /\ rm_failed' = (rm_failed \/ st.raised)
              /\ remove_calls' = [p \in Paths |-> remove_calls[p] + st.calls[p]]
    /\ pc' = "stats"
    /\ UNCHANGED <<req, env, temp_img_path, temp_written, codec_params,
                   has_cuda_support, has_overlay_cuda, resolver_called, retry_count,
                   bg_result, materialized, local_background_path, ffmpeg_cmd,
                   launched, returncode, stderr, failure_class, exc, outcome>>
    /\ UNCHANGED <<timeline, offset, objvars, procvars, peer>>

\* lines 677-690
ReturnOutputPath ==
    /\ pc = "stats"
    /\ performance_stats' = [performance_stats EXCEPT !.fields =
                                FinalStats(@, "main", timeline[1].total_frames)]
    /\ outcome' = "returned_output_path"
    /\ pc' = "done"
    /\ UNCHANGED <<req, env, files, removes, rm_failed, temp_img_path, temp_written,
                   codec_params, has_cuda_support, has_overlay_cuda, resolver_called,
                   retry_count, bg_result, materialized, local_background_path,
                   ffmpeg_cmd, launched, returncode, stderr, failure_class, exc>>
    /\ UNCHANGED <<timeline, offset, self_total_frames, procvars, peer>>
    /\ UNCHANGED remove_calls

\* lines 692-708: the handler logs, cleans up and falls off the end of the
\* function, so the call returns None
HandleException ==
    /\ pc = "except"
    /\ \E fail_temp \in BOOLEAN : \E fail_bg \in BOOLEAN :
          LET st == RemoveTempFiles(files, removes, temp_img_path,
                                    local_background_path, fail_temp, fail_bg)
          IN  /\ files' = st.files
              /\ removes' = st.removes
              /\ rm_failed' = (rm_failed \/ st.raised)
              /\ remove_calls' = [p \in Paths |-> remove_calls[p] + st.calls[p]]
    /\ outcome' = "returned_none"
    /\ pc' = "done"
    /\ UNCHANGED <<req, env, temp_img_path, temp_written, codec_params,
                   has_cuda_support, has_overlay_cuda, resolver_called, retry_count,
                   bg_result, materialized, local_background_path, ffmpeg_cmd,
                   launched, returncode, stderr, failure_class, exc>>
    /\ UNCHANGED <<timeline, offset, objvars, procvars, peer>>

Next ==
    \/ PrepareImage
    \/ ComputeTimeline
    \/ SelectCodec
    \/ ProbeGpu
    \/ ProbeFilter
    \/ FormatBgHex
    \/ ResolveBackground
    \/ DownloadAttempt
    \/ DownloadGiveUp
    \/ ProcessAndCompress
    \/ SaveBackground
    \/ BuildInputs
    \/ AssembleCommand
    \/ LaunchEncoder
    \/ EncoderExit
    \/ MonitorRead
    \/ MonitorFinish
    \/ Interrupt
    \/ Communicate
    \/ JoinMonitor
    \/ CheckReturnCode
    \/ CleanupAfterSuccess
    \/ ReturnOutputPath
    \/ HandleException

Spec == Init /\ [][Next]_vars

\* the requests of the timeline specification: every small input, and the
\* scenarios with a 1280-pixel canvas
TimelineRequests ==
    [background_url : {"none"},
     top_margin : Margins,
     bottom_margin : {0},
     audio : {FALSE},
     preferred_codec : {"h264_nvenc"},
     image_ok : {TRUE},
     height : {CanvasHeight},
     img_height : 1..MaxImageHeight,
     roll_px10 : RollSpeeds10,
     fps : 1..MaxFps]
    \cup
    [background_url : {"none"},
     top_margin : {0, 120},
     bottom_margin : {0},
     audio : {FALSE},
     preferred_codec : {"h264_nvenc"},
     image_ok : {TRUE},
     height : {1280},
     img_height : {1280, 1770, 4000},
     roll_px10 : {10, 16},
     fps : {60}]

TimelineInit ==
    InitWith(TimelineRequests,
             [NO_GPU : {FALSE}, system : {"Linux"}, nvidia_rc : {0},
              overlay_cuda_listed : {TRUE}])

\* one request, with a remote background and every capability present
SmallRequests ==
    [background_url : {"remote"},
     top_margin : {MarginPx},
     bottom_margin : {0},
     audio : {TRUE},
     preferred_codec : {"h264_nvenc"},
     image_ok : {TRUE},
     height : {CanvasHeight},
     img_height : {MaxImageHeight},
     roll_px10 : {10},
     fps : {MaxFps}]

SmallInit ==
    InitWith(SmallRequests,
             [NO_GPU : {FALSE}, system : {"Linux"}, nvidia_rc : {0},
              overlay_cuda_listed : {TRUE}])

\* the steps of the calling thread from communicate() on: nothing but the
\* child's exit and the join timeout makes it wait
MainThread ==
    \/ Communicate
    \/ JoinMonitor
    \/ CheckReturnCode
    \/ CleanupAfterSuccess
    \/ ReturnOutputPath
    \/ HandleException

\* the calling thread keeps running; the child process and the progress
\* reader are not assumed to make progress
LiveSpec == SmallInit /\ [][Next]_vars /\ WF_vars(MainThread)

\* image heights of the second call's text layer
PeerImageHeights == {1, MaxImageHeight}

\* A second call of create_scrolling_video_overlay_cuda on the same renderer
\* object, from another thread, reduced to its accesses to the fields of
\* self.  Lines 323-329: it binds a new dict to self.performance_stats.
PeerPrepare ==
    /\ peer.pc = "absent"
    /\ peer' = [peer EXCEPT !.pc = "timeline"]
    /\ performance_stats' = FreshStats("peer")
    /\ UNCHANGED <<req, env, pc, files, removes, rm_failed, temp_img_path, temp_written,
                   codec_params, has_cuda_support, has_overlay_cuda, resolver_called,
                   retry_count, bg_result, materialized, local_background_path,
                   ffmpeg_cmd, launched, returncode, stderr, failure_class, exc, outcome>>
    /\ UNCHANGED <<timeline, offset, self_total_frames, procvars>>
    /\ UNCHANGED remove_calls

\* lines 369-400 of the second call: its own image, the renderer's canvas,
\* speed and frame rate
PeerTimeline ==
    /\ peer.pc = "timeline"
    /\ \E img_height \in PeerImageHeights :
          LET tl == Timeline(img_height, req.height, req.roll_px10, req.fps)
          IN  \E total_frames \in TotalFramesOutcomes(tl.scroll_duration_ticks, req.fps) :
                 /\ peer' = [pc |-> "codec", total_frames |-> total_frames]
                 /\ self_total_frames' = Stored("peer", total_frames)
    /\ UNCHANGED <<req, env, pc, files, removes, rm_failed, temp_img_path, temp_written,
                   codec_params, has_cuda_support, has_overlay_cuda, resolver_called,
                   retry_count, bg_result, materialized, local_background_path,
                   ffmpeg_cmd, launched, returncode, stderr, failure_class, exc, outcome>>
    /\ UNCHANGED <<timeline, offset, performance_stats, procvars>>
    /\ UNCHANGED remove_calls

\* line 427 of the second call
PeerStorePreparation ==
    /\ peer.pc = "codec"
    /\ peer' = [peer EXCEPT !.pc = "encoding"]
    /\ performance_stats' = [performance_stats EXCEPT
                                !.fields["preparation_time"] = Stored("peer", 1)]
    /\ UNCHANGED <<req, env, pc, files, removes, rm_failed, temp_img_path, temp_written,
                   codec_params, has_cuda_support, has_overlay_cuda, resolver_called,
                   retry_count, bg_result, materialized, local_background_path,
                   ffmpeg_cmd, launched, returncode, stderr, failure_class, exc, outcome>>
    /\ UNCHANGED <<timeline, offset, self_total_frames, procvars>>
    /\ UNCHANGED remove_calls

\* lines 679-682 of the second call
PeerFinish ==
    /\ peer.pc = "encoding"
    /\ peer' = [peer EXCEPT !.pc = "done"]
    /\ performance_stats' = [performance_stats EXCEPT !.fields =
                                FinalStats(@, "peer", peer.total_frames)]
    /\ UNCHANGED <<req, env, pc, files, removes, rm_failed, temp_img_path, temp_written,
                   codec_params, has_cuda_support, has_overlay_cuda, resolver_called,
                   retry_count, bg_result, materialized, local_background_path,
                   ffmpeg_cmd, launched, returncode, stderr, failure_class, exc, outcome>>
    /\ UNCHANGED <<timeline, offset, self_total_frames, procvars>>
    /\ UNCHANGED remove_calls

ConcurrentNext ==
    \/ Next
    \/ PeerPrepare
    \/ PeerTimeline
    \/ PeerStorePreparation
    \/ PeerFinish

\* two calls on one renderer object; nothing in the class orders them
ConcurrentSpec == SmallInit /\ [][ConcurrentNext]_vars

\* every pass of the retry loop ends: requests.get is called with a timeout
\* (line 49) and the waits between attempts are one second
DownloadSpec == SmallInit /\ [][Next]_vars /\ WF_vars(DownloadAttempt \/ DownloadGiveUp)

TimelineNext ==
    \/ PrepareImage
    \/ ComputeTimeline
    \/ EvalFrame

\* the timeline and the offset function over all the inputs above
TimelineSpec == TimelineInit /\ [][TimelineNext]_vars

\* ------------------------------------------------------------------------
\* Properties
\* ------------------------------------------------------------------------

\* the call has ended
Terminated == pc = "done"

\* the call ended in one of the ways a render ends by itself: by returning
\* or through an exception of the program, not by an interrupt from outside
EndedByItself == Terminated /\ exc # "KeyboardInterrupt"

\* C1: when the call has ended (normal return, encoder failure, probe
\* failure, exception during assembly or launch) after writing the text-layer
\* image, and no os.remove raised, neither the text-layer image nor a
\* background image materialized from a remote reference exists any more,
\* and each was removed by exactly one deletion.
C1_TempArtifactsRemovedOnce ==
    (EndedByItself /\ temp_written /\ ~rm_failed) =>
        /\ ~files["temp_img"]
        /\ removes["temp_img"] = 1
        /\ ~files["bg_temp"]
        /\ (materialized => removes["bg_temp"] = 1)

C1_Witness ==
    /\ Terminated /\ temp_written /\ ~rm_failed
    /\ materialized
    /\ exc = "ProcessError"
    /\ removes["temp_img"] = 1 /\ removes["bg_temp"] = 1

ReferencedIndices(filter) ==
    { filter[i].ins[j].idx :
        <<i, j>> \in { <<a, b>> \in (DOMAIN filter) \X (1..2) :
                          b \in DOMAIN filter[a].ins /\ filter[a].ins[b].t = "in" } }

\* the slot of the input list an input kind occupies
Slot(kind) == IF kind \in {"bg_image", "bg_color"} THEN "background" ELSE kind

\* the slot a stage is meant to read when it reads a process input
Meant(role) ==
    CASE role \in {"upload_bg", "overlay_scroll", "crop_top", "crop_bottom"} -> "background"
      [] role = "upload_scroll" -> "scroll"
      [] role = "overlay_top" -> "top_mask"
      [] role = "overlay_bottom" -> "bottom_mask"
      [] OTHER -> "none"

\* every [n:v] of every stage names an existing input of the meant slot
IndicesPointAtMeantInputs(cmd) ==
    \A i \in DOMAIN cmd.filter : \A j \in DOMAIN cmd.filter[i].ins :
        LET r == cmd.filter[i].ins[j]
        IN  r.t = "in" =>
               /\ r.idx + 1 \in DOMAIN cmd.inputs
               /\ Slot(cmd.inputs[r.idx + 1]) = Meant(cmd.filter[i].role)

\* C4: without audio, for both background kinds and every margin combination,
\* the number of -i inputs equals the number of distinct [n:v] indices the
\* filter stages refer to, and each index is that of the input it is meant
\* to consume.
C4_InputsMatchFilterReferences ==
    (ffmpeg_cmd.complete /\ ~req.audio) =>
        /\ Len(ffmpeg_cmd.inputs) = Cardinality(ReferencedIndices(ffmpeg_cmd.filter))
        /\ IndicesPointAtMeantInputs(ffmpeg_cmd)

C4_Witness ==
    /\ ffmpeg_cmd.complete /\ ~req.audio
    /\ ffmpeg_cmd.inputs = <<"bg_color", "scroll", "bottom_mask">>
    /\ 2 \in ReferencedIndices(ffmpeg_cmd.filter)

\* zero-based position of the audio input in the input list
AudioPosition(inputs) == (CHOOSE i \in DOMAIN inputs : inputs[i] = "audio") - 1

MarginInputs == (IF req.top_margin > 0 THEN 1 ELSE 0) + (IF req.bottom_margin > 0 THEN 1 ELSE 0)

\* C5: with audio present the index used in the audio mapping is the position
\* of the audio input: 2 in background-image mode, and 2 plus the number of
\* mask inputs in solid-colour mode.
C5_AudioIndexIsAudioPosition ==
    (ffmpeg_cmd.complete /\ req.audio) =>
        /\ ffmpeg_cmd.audio_index = AudioPosition(ffmpeg_cmd.inputs)
        /\ (ffmpeg_cmd.inputs[1] = "bg_image" => ffmpeg_cmd.audio_index = 2)
        /\ (ffmpeg_cmd.inputs[1] = "bg_color" => ffmpeg_cmd.audio_index = 2 + MarginInputs)

\* input list and index references of a command agree, audio mapping included
CommandConsistent(cmd) ==
    /\ IndicesPointAtMeantInputs(cmd)
    /\ Len(cmd.inputs) = Cardinality(ReferencedIndices(cmd.filter)
                                        \cup (IF cmd.audio_index >= 0
                                              THEN {cmd.audio_index} ELSE {}))
    /\ (cmd.audio_index >= 0 =>
           /\ cmd.audio_index + 1 \in DOMAIN cmd.inputs
           /\ cmd.inputs[cmd.audio_index + 1] = "audio")

\* C6: the encoder is never launched with a command whose input list and
\* index references (audio mapping included) disagree.
C6_NoLaunchOfInconsistentCommand ==
    launched => CommandConsistent(ffmpeg_cmd)

\* first category, in the order given, one of whose substrings occurs in err
FirstMatch(priority, err) ==
    LET hits == { i \in DOMAIN priority : priority[i].markers \cap err # {} }
    IN  IF hits = {} THEN "generic_nonzero_exit"
        ELSE priority[CHOOSE i \in hits : \A k \in hits : i <= k].category

Cat(category, markers) == [category |-> category, markers |-> markers]

SixCategoryOrder ==
    << Cat("storage_exhaustion", {"No space left on device"}),
       Cat("invalid_argument", {"Invalid argument"}),
       Cat("filter_graph_configuration", {"Error opening filters"}),
       Cat("hardware_driver", {"CUDA error", "CUDA failure"}),
       Cat("unimplemented_operation", {"Function not implemented"}) >>

SevenCategoryOrder ==
    << Cat("storage_exhaustion", {"No space left on device"}),
       Cat("invalid_argument", {"Invalid argument"}),
       Cat("filter_graph_configuration", {"Error opening filters"}),
       Cat("hardware_driver", {"CUDA error", "CUDA failure"}),
       Cat("format_conversion", {"Impossible to convert between the formats"}),
       Cat("unimplemented_operation", {"Function not implemented"}) >>

\* C7 (as stated): a non-zero exit is classified as the first match among
\* storage-exhaustion, invalid-argument, filter-graph-configuration,
\* hardware/driver, unimplemented-operation, else generic-nonzero-exit.
C7_SixCategories ==
    failure_class # None => failure_class = FirstMatch(SixCategoryOrder, stderr)

\* C7 (amended): a non-zero exit is classified as the first match among
\* storage-exhaustion, invalid-argument, filter-graph-configuration,
\* hardware/driver, format-conversion incompatibility, unimplemented-operation,
\* else generic-nonzero-exit.
C7_SevenCategories ==
    failure_class # None => failure_class = FirstMatch(SevenCategoryOrder, stderr)

C7_Witness ==
    /\ failure_class = "format_conversion"
    /\ "Function not implemented" \in stderr
    /\ returncode = <<1>>

\* positions of the call between the return of _build_ffmpeg_cmd and cleanup
AfterBuild == pc \in {"assemble", "launch", "running", "join", "check"}

\* positions inside the background resolver
InResolver == pc \in {"resolve", "download", "process", "save", "inputs"}

\* a usable background image: an existing local file or a saved remote one
ImageAvailable ==
    \/ (req.background_url = "local" /\ files["bg_local"])
    \/ materialized

\* C8: background resolution never aborts the render, and when no image is
\* given, the local reference does not exist, or fetching the remote one
\* failed, the command is built with a null background path, the solid-colour
\* input list and the solid-colour filter stages.
C8_ResolverFallsBackToSolidColour ==
    /\ [][InResolver => pc' # "except"]_vars
    /\ []((AfterBuild /\ ~ImageAvailable) =>
             /\ local_background_path = None
             /\ ffmpeg_cmd.inputs[1] = "bg_color"
             /\ (ffmpeg_cmd.complete => ffmpeg_cmd.filter[1].role = "upload_scroll"))

C8_Witness ==
    /\ pc = "launch"
    /\ req.background_url = "local" /\ ~files["bg_local"]
    /\ local_background_path = None
    /\ ffmpeg_cmd.inputs[1] = "bg_color"

\* the command uses the hardware input preamble and hardware compositing
HardwarePath(cmd) ==
    /\ \E i \in DOMAIN cmd.preamble : cmd.preamble[i] = "cuda"
    /\ \E i \in DOMAIN cmd.filter : cmd.filter[i].op = "overlay_cuda"

\* C9: with NO_GPU set no render proceeds on the hardware path, whatever the
\* probes report.
C9_OverrideForcesHardwareUnavailable ==
    env.NO_GPU => ~(launched /\ HardwarePath(ffmpeg_cmd))

\* what the two probes would detect
HardwareDetected == env.nvidia_rc = 0 /\ env.overlay_cuda_listed

\* C10 (as stated): the selector yields the hardware parameter set only when
\* the hardware codec is requested, hardware is detected and NO_GPU is not set.
C10_HardwareSetNeedsDetection ==
    codec_params = "h264_nvenc" =>
        req.preferred_codec = "h264_nvenc" /\ HardwareDetected /\ ~env.NO_GPU

\* C10 (amended): the selector yields the hardware parameter set only when the
\* hardware codec is requested and NO_GPU is not set, whatever the probes
\* would detect; otherwise it yields the libx264 set.
C10_HardwareSetNeedsRequestAndNoOverride ==
    codec_params # Unset =>
        /\ codec_params \in {"h264_nvenc", "libx264"}
        /\ (codec_params = "h264_nvenc" =>
               req.preferred_codec = "h264_nvenc" /\ ~env.NO_GPU)

C10_Witness ==
    /\ codec_params = "h264_nvenc"
    /\ ~HardwareDetected
    /\ pc = "probe_gpu"

\* the timeline has been computed and y_expr was evaluated for a frame
FrameShown == timeline # <<>> /\ offset # <<>>

\* the frame number and the offset of the frame last evaluated
FrameNo == offset[1]

FrameY == offset[2]

\* -(image_height - canvas_height + top_margin), the resting offset
FinalOffset == -(req.img_height - req.height + req.top_margin)

\* C11: when the image is not taller than the canvas, scroll_distance is 0
\* and the offset of every frame, before, during and after the scroll
\* segment, is top_margin.
C11_ShortImageNeverMoves ==
    (req.img_height <= req.height /\ FrameShown) =>
        /\ timeline[1].scroll_distance = 0
        /\ FrameY = req.top_margin

\* C12: the offset at scroll_start_time is top_margin, and the offset at every
\* time from scroll_end_time on, scroll_end_time included, is the resting
\* offset -(image_height - canvas_height + top_margin).
C12_OffsetAtTheSegmentEnds ==
    FrameShown =>
        /\ (FrameNo = timeline[1].scroll_start_tick => FrameY = req.top_margin)
        /\ (FrameNo >= timeline[1].scroll_end_tick => FrameY = FinalOffset)

\* C13: the whole-pixel steps of the scroll segment cover the scroll
\* distance: px_per_frame * scroll_frames >= scroll_distance.
C13_StepsCoverTheDistance ==
    timeline # <<>> =>
        timeline[1].px_per_frame * timeline[1].scroll_frames
            >= timeline[1].scroll_distance

\* round() of a non-negative number given in tenths, halves to the even side
Round(x10) ==
    LET q == x10 \div 10
        r == x10 % 10
    IN  IF r > 5 THEN q + 1
        ELSE IF r < 5 THEN q
        ELSE IF q % 2 = 0 THEN q ELSE q + 1

\* C14: the integer scroll step is max(1, round(requested speed)), so a
\* requested 1.6 pixels per frame gives 2.
C14_StepIsTheRoundedSpeed ==
    timeline # <<>> => timeline[1].roll_px_int = Max(1, Round(req.roll_px10))

\* the request of the scenario: a 4000-pixel image on a 1280-pixel canvas at
\* 60 frames per second, 1 pixel per frame, top margin 120
Scenario4000 ==
    /\ req.img_height = 4000 /\ req.height = 1280 /\ req.fps = 60
    /\ req.roll_px10 = 10 /\ req.top_margin = 120

\* what the scenario's timeline has whatever the frame count is
ScenarioTimeline(frame_count) ==
    /\ timeline[1].scroll_distance = 2720
    /\ timeline[1].roll_px_int = 1
    /\ timeline[1].min_scroll_steps = 2720
    /\ timeline[1].scroll_duration_ticks = 2720
    /\ timeline[1].scroll_duration_ticks > 8 * req.fps
    /\ timeline[1].scroll_frames = frame_count
    /\ timeline[1].px_per_frame = 1
    /\ timeline[1].total_duration_ticks = 4 * req.fps + 2720

\* C15 as stated: in the scenario scroll_distance = 2720, roll_px_int = 1,
\* min_scroll_steps = 2720, scroll_duration = 2720/60 s, above the 8 s floor,
\* scroll_frames = 2719, px_per_frame = 1 and total_duration = 4 + 2720/60 s.
C15_ScenarioWith2719Frames ==
    (Scenario4000 /\ timeline # <<>>) => ScenarioTimeline(2719)

\* C15 amended: the same scenario has scroll_frames = 2720, the other values
\* as stated.
C15_ScenarioWith2720Frames ==
    (Scenario4000 /\ timeline # <<>>) => ScenarioTimeline(2720)

C15_Witness ==
    /\ Scenario4000
    /\ timeline # <<>>
    /\ pc = "codec"
    /\ timeline[1].scroll_frames = 2720


\* C16: when the call was ended by an interrupt of the calling thread while
\* the encoder was running, the child process has been terminated and the
\* temporary files have been removed by the time the call ends.
C16_InterruptStopsChildAndCleansUp ==
    (Terminated /\ exc = "KeyboardInterrupt") =>
        /\ process.state = "exited"
        /\ ~files["temp_img"]
        /\ ~files["bg_temp"]

\* C17: for a given exit status and diagnostic output of the encoder the
\* call succeeds exactly when the status is 0, and the failure category is
\* the one the whole diagnostic output selects, whatever the progress reader
\* did in between.
C17_ReaderIsObservationalOnly ==
    (EndedByItself /\ returncode # <<>>) =>
        /\ (outcome = "returned_output_path" <=> process.status = 0)
        /\ (process.status # 0 => failure_class = Classify(process.err))

\* C18: once the child process has exited the call ends, whether or not the
\* progress reader ever finishes.
C18_ExitedChildLeadsToEnd == (process.state = "exited") ~> Terminated

C18_Witness ==
    /\ Terminated
    /\ process.state = "exited"
    /\ returncode # <<>>
    /\ monitor.state = "alive"
    /\ outcome = "returned_output_path"


\* C19: two concurrent calls on one renderer share no field of the object:
\* the frame count a call stored is not overwritten by the other call while
\* the first is still running, and the statistics a call reads back and
\* completes at its end are in the dict it created, with its own preparation
\* time.
C19_CallsShareNoRendererFields ==
    /\ (timeline # <<>> /\ ~Terminated) =>
          self_total_frames = Stored("main", timeline[1].total_frames)
    /\ (pc = "stats") =>
          /\ performance_stats.dict = "main"
          /\ performance_stats.fields["preparation_time"].by = "main"


\* a configuration outside the basic ranges: frame rate or canvas height not
\* positive, a negative margin, or a margin as large as the canvas height
InvalidConfig ==
    \/ req.fps <= 0
    \/ req.height <= 0
    \/ req.top_margin < 0 \/ req.bottom_margin < 0
    \/ req.top_margin >= req.height \/ req.bottom_margin >= req.height

\* C20: a request with a configuration outside the basic ranges is rejected
\* before any computation: the call never writes the text-layer image, never
\* enters the timeline arithmetic, never runs a probe and never launches the
\* encoder.
C20_InvalidConfigRejectedBeforeWork ==
    InvalidConfig =>
        /\ ~temp_written
        /\ pc \notin {"timeline", "codec", "probe_gpu", "probe_filter"}
        /\ timeline = <<>>
        /\ ~launched


C22_CallerBackgroundIsKept ==
    /\ removes["bg_local"] = 0
    /\ remove_calls["bg_local"] = 0
    /\ (req.background_url = "local" /\ local_background_path = "bg_local" /\ Terminated)
          => files["bg_local"]


\* C23: a pass of the retry loop that yields a valid image is one of the first
\* max_retries passes and ends the loop at once; a failed pass (timeout,
\* request error, invalid image) adds exactly one to retry_count, which never
\* exceeds max_retries; once max_retries passes have failed no further
\* attempt is made and the result is None; and the loop always ends.
C23_DownloadRetriesAreBounded ==
    /\ [][pc = "download" =>
            /\ (pc' = "process" => retry_count < max_retries /\ retry_count' = retry_count)
            /\ (pc' = "download" =>
                   retry_count' = retry_count + 1 /\ retry_count' <= max_retries)
            /\ (retry_count >= max_retries => pc' = "inputs" /\ bg_result' = None)]_vars
    /\ ((pc = "download") ~> (pc # "download"))

C23_Witness ==
    /\ pc = "inputs"
    /\ resolver_called
    /\ retry_count = max_retries
    /\ bg_result = None


\* C24: the offset never increases from one frame to the next over the whole
\* render; in particular the resting offset after scroll_end_time is not
\* greater than the last offset of the scroll segment.
C24_OffsetNeverMovesBackDown ==
    [][(offset # <<>> /\ offset' # <<>> /\ offset'[1] = offset[1] + 1)
          => offset'[2] <= offset[2]]_vars


\* the stage labels a stage consumes
LabelsConsumed(stage) ==
    {stage.ins[k].lbl : k \in {n \in 1..Len(stage.ins) : stage.ins[n].t = "lbl"}}

\* the stages of a graph that produce a given label
Producers(f, lbl) == {j \in 1..Len(f) : f[j].out = lbl}

\* the last overlay stage of a graph
LastOverlay(f) ==
    CHOOSE j \in 1..Len(f) :
        /\ f[j].op = "overlay_cuda"
        /\ \A k \in (j + 1)..Len(f) : f[k].op # "overlay_cuda"

WellFormedChain(f) ==
    /\ \A i \in 1..Len(f) : \A lbl \in LabelsConsumed(f[i]) :
          /\ Cardinality(Producers(f, lbl)) = 1
          /\ \A j \in Producers(f, lbl) : j < i
    /\ \A j \in 1..Len(f) :
          f[j].out # "out" => \E i \in (j + 1)..Len(f) : f[j].out \in LabelsConsumed(f[i])
    /\ f[Len(f)].op = "hwdownload"
    /\ LabelsConsumed(f[Len(f)]) = {f[LastOverlay(f)].out}
    /\ Cardinality(Producers(f, "out")) = 1

\* C25: in the assembled command the filter graph is a well-formed chain:
\* every consumed label is produced by exactly one earlier stage, every
\* intermediate label is consumed, the final format conversion consumes the
\* label of the last overlay emitted, [out] is produced exactly once, and the
\* stages are those of the background kind the input list was built for.
C25_FilterGraphIsAChain ==
    ffmpeg_cmd.complete =>
        /\ WellFormedChain(ffmpeg_cmd.filter)
        /\ (ffmpeg_cmd.inputs[1] = "bg_image"
               <=> ffmpeg_cmd.filter[1].role = "upload_bg")

C25_Witness ==
    /\ ffmpeg_cmd.complete
    /\ ffmpeg_cmd.inputs[1] = "bg_image"
    /\ req.top_margin > 0
    /\ req.bottom_margin = 0
    /\ Len(ffmpeg_cmd.filter) = 6


\* C26: the two deletions of the cleanup are independent: when the call has
\* ended, by return or by failure, with a downloaded background to clean up
\* and the removal of the text-layer image failed, os.remove was still called
\* on the downloaded background.
C26_DeletionsAreIndependent ==
    (/\ EndedByItself
     /\ local_background_path = "bg_temp"
     /\ remove_calls["temp_img"] > removes["temp_img"])
        => remove_calls["bg_temp"] >= 1

====
